---- MODULE Spec2Model ----
(***************************************************************************)
(* Gobang (five-in-a-row) rules engine: class Game (src/types/game.ts),   *)
(* driven through its public operations placeStone, undo, reset and        *)
(* setGameStatus, the last one as GameController.togglePause (src/main.ts) *)
(* calls it.  Each operation is an operator from the engine's fields to    *)
(* the value returned and the fields afterwards, and an action that        *)
(* applies it; a rejected call leaves every variable as it was.            *)
(*                                                                         *)
(* A Position is the pair <<row, col>>.  A HistoryItem is the record       *)
(* [position, stone, moveNumber]; its timestamp (Date.now()) is written    *)
(* once and never read by the engine and is left out.                      *)
(***************************************************************************)
EXTENDS Integers, Sequences, FiniteSets, TLC

VARIABLES
    config,            \* Game.config: [boardSize, winCount]
    board,             \* Game.board: cell -> "black" | "white" | None
    currentPlayer,     \* Game.currentPlayer
    gameStatus,        \* Game.gameStatus
    winningPositions,  \* Game.winningPositions: Null or a sequence of positions
    history,           \* Game.history: sequence of HistoryItem
    lastMove,          \* Game.lastMove: Null or a position
    moveCount,         \* Game.players[stone].moveCount
    statusForced,      \* setGameStatus was called other than to pause or resume
    pendingAI,         \* the calls of makeAIMove waiting at delay(500)
    ai,                \* GameController.ai: None or the difficulty of the AI
    isReviewMode,      \* GameController.isReviewMode
    reviewHistory,     \* GameController.reviewHistory
    reviewIndex        \* GameController.reviewIndex

vars == <<config, board, currentPlayer, gameStatus, winningPositions,
          history, lastMove, moveCount, statusForced, pendingAI,
          ai, isReviewMode, reviewHistory, reviewIndex>>

\* the fields of the review feature
reviewVars == << isReviewMode, reviewHistory, reviewIndex >>

----------------------------------------------------------------------------
(* Bounds of the model. *)

\* placeStone is not called once the log holds MaxMoves entries
MaxMoves == 5

\* the same cap in the game played with the move selector
MaxMovesAI == 4

\* the same cap in the game played through the controller
MaxMovesUI == 4

\* the same cap in the games that build lines of stones
MaxMovesLine == 9

\* handleCellClick starts no makeAIMove while MaxPending of them are waiting
MaxPending == 2

\* the engine is constructed with one of these <<boardSize, winCount>> pairs
Configs == { <<1, 1>>, <<2, 3>>, <<3, 2>>, <<3, 3>> }

\* the pairs for the caller that passes setGameStatus any status
ConfigsAPI == { <<2, 2>>, <<2, 3>> }

\* the pairs for the game played with the move selector
ConfigsAI == { <<1, 1>>, <<2, 3>>, <<3, 2>>, <<3, 3>> }

\* the pairs for the games that build lines of up to five stones
ConfigsLine == { <<4, 4>>, <<5, 5>>, <<6, 5>> }

\* the pairs standing for the controller's game, which is always built with
\* the defaults 15 and 5
ConfigsUI == { <<3, 2>>, <<3, 3>> }

----------------------------------------------------------------------------
(* Types of src/types/game.ts *)

Stone == {"black", "white"}

GameStatus == {"playing", "blackWin", "whiteWin", "draw", "paused"}

\* an empty cell (null in board[row][col])
None == "none"

\* a null object reference (winningPositions, lastMove)
Null == << >>

\* the cells of a board of the given size
Cells(size) == (0 .. size - 1) \X (0 .. size - 1)

\* the positions callers pass to placeStone: every cell, and one position beyond
\* each edge and each corner of the board
Inputs(size) ==
    Cells(size) \cup ({-1, size} \X {-1, 0, size}) \cup ({0} \X {-1, size})

\* the engine's fields as one value
this ==
    [ config           |-> config,
      board            |-> board,
      currentPlayer    |-> currentPlayer,
      gameStatus       |-> gameStatus,
      winningPositions |-> winningPositions,
      history          |-> history,
      lastMove         |-> lastMove,
      moveCount        |-> moveCount ]

\* new Game(config): the state the constructor leaves
constructor(cfg) ==
    [ config           |-> cfg,
      board            |-> [c \in Cells(cfg.boardSize) |-> None],
      currentPlayer    |-> "black",
      gameStatus       |-> "playing",
      winningPositions |-> Null,
      history          |-> << >>,
      lastMove         |-> Null,
      moveCount        |-> [s \in Stone |-> 0] ]

----------------------------------------------------------------------------
(* Private helpers of Game *)

isValidPosition(g, p) ==
    /\ p[1] >= 0 /\ p[1] < g.config.boardSize
    /\ p[2] >= 0 /\ p[2] < g.config.boardSize

\* directions with the anti-diagonal mistyped as a second main diagonal
directions_NoAntiDiagonal ==
    << << << 0, 1 >>, << 0, -1 >> >>,
       << << 1, 0 >>, << -1, 0 >> >>,
       << << 1, 1 >>, << -1, -1 >> >>,
       << << 1, 1 >>, << -1, -1 >> >> >>

\* the four axes, each as its two opposite directions, in the order checkWin tries them
directions ==
    << << << 0, 1 >>, << 0, -1 >> >>,
       << << 1, 0 >>, << -1, 0 >> >>,
       << << 1, 1 >>, << -1, -1 >> >>,
       << << 1, -1 >>, << -1, 1 >> >> >>

\* the while loop of checkWin: the positions from <<r, c>> on, stepping by d,
\* as long as they are on the board and hold stone
RECURSIVE walk(_, _, _, _, _)
walk(g, r, c, d, stone) ==
    IF /\ r >= 0 /\ r < g.config.boardSize
       /\ c >= 0 /\ c < g.config.boardSize
       /\ g.board[<<r, c>>] = stone
    THEN << <<r, c>> >> \o walk(g, r + d[1], c + d[2], d, stone)
    ELSE << >>

\* checkWin looking from the placed position in the first direction only
axisPositions_ForwardOnly(g, p, direction) ==
    LET stone == g.board[p]
        d1 == direction[1]
    IN  << p >> \o walk(g, p[1] + d1[1], p[2] + d1[2], d1, stone)

\* the positions checkWin gathers for one axis: the placed position, then the
\* walk in the first direction, then the walk in the opposite one
axisPositions(g, p, direction) ==
    LET stone == g.board[p]
        d1 == direction[1]
        d2 == direction[2]
    IN  << p >> \o walk(g, p[1] + d1[1], p[2] + d1[2], d1, stone)
                \o walk(g, p[1] + d2[1], p[2] + d2[2], d2, stone)

\* checkWin that compares the count with winCount - 1
winAxis_OffByOne(g, p) ==
    LET hits == { i \in 1 .. 4 :
                    Len(axisPositions(g, p, directions[i])) >= g.config.winCount - 1 }
    IN  IF hits = {} THEN 0 ELSE CHOOSE i \in hits : \A j \in hits : i <= j

\* checkWin going on after an axis qualified, so that the last one is kept
winAxis_LastAxis(g, p) ==
    LET hits == { i \in 1 .. 4 :
                    Len(axisPositions(g, p, directions[i])) >= g.config.winCount }
    IN  IF hits = {} THEN 0 ELSE CHOOSE i \in hits : \A j \in hits : i >= j

\* the index of the first axis whose count reaches winCount, 0 if there is none
winAxis(g, p) ==
    LET hits == { i \in 1 .. 4 :
                    Len(axisPositions(g, p, directions[i])) >= g.config.winCount }
    IN  IF hits = {} THEN 0 ELSE CHOOSE i \in hits : \A j \in hits : i <= j

\* checkWin with positions declared outside the loop over the axes, so that it
\* keeps what the earlier axes gathered
checkWin_SharedPositions(g, p) ==
    LET i == winAxis(g, p)
        RECURSIVE upTo(_)
        upTo(k) == IF k = 0 THEN << >>
                   ELSE upTo(k - 1) \o axisPositions(g, p, directions[k])
    IN  IF i # 0
        THEN [ ret  |-> TRUE,
               game |-> [g EXCEPT !.winningPositions = upTo(i)] ]
        ELSE [ ret |-> FALSE, game |-> g ]

\* checkWin(lastPosition): the return value, and the engine after the call
checkWin(g, p) ==
    LET i == winAxis(g, p)
    IN  IF i # 0
        THEN [ ret  |-> TRUE,
               game |-> [g EXCEPT !.winningPositions =
                                      axisPositions(g, p, directions[i])] ]
        ELSE [ ret |-> FALSE, game |-> g ]

isDraw(g) ==
    \A c \in Cells(g.config.boardSize) : g.board[c] # None

getEmptyPositions(g) ==
    { c \in Cells(g.config.boardSize) : g.board[c] = None }

----------------------------------------------------------------------------
(* Public operations of Game, each as the return value and the engine after it *)

\* placeStone without its check of the game status
placeStoneRejects_NoStatusCheck(g, p) ==
    \/ ~isValidPosition(g, p)
    \/ g.board[p] # None

\* placeStone whose status check lets a won game through
placeStoneRejects_IgnoresWin(g, p) ==
    \/ ~isValidPosition(g, p)
    \/ g.board[p] # None
    \/ g.gameStatus \in {"paused", "draw"}

\* the three early returns of placeStone
placeStoneRejects(g, p) ==
    \/ ~isValidPosition(g, p)
    \/ g.board[p] # None
    \/ g.gameStatus # "playing"

\* placeStone that numbers the moves from 0
placeStoneWrite_ZeroBased(g, p) ==
    LET historyItem == [ position   |-> p,
                         stone      |-> g.currentPlayer,
                         moveNumber |-> Len(g.history) ]
    IN  [g EXCEPT !.board[p] = g.currentPlayer,
                  !.lastMove = p,
                  !.history = Append(g.history, historyItem),
                  !.moveCount[g.currentPlayer] = @ + 1]

\* placeStone from "record history" to the increment of the move counter
placeStoneWrite(g, p) ==
    LET historyItem == [ position   |-> p,
                         stone      |-> g.currentPlayer,
                         moveNumber |-> Len(g.history) + 1 ]
    IN  [g EXCEPT !.board[p] = g.currentPlayer,
                  !.lastMove = p,
                  !.history = Append(g.history, historyItem),
                  !.moveCount[g.currentPlayer] = @ + 1]

\* placeStone that never passes the turn
placeStoneOutcome_NoFlip(g, p) ==
    LET won == checkWin(g, p)
    IN  IF won.ret
        THEN [won.game EXCEPT !.gameStatus =
                 IF g.currentPlayer = "black" THEN "blackWin" ELSE "whiteWin"]
        ELSE IF isDraw(g)
        THEN [g EXCEPT !.gameStatus = "draw"]
        ELSE g

\* placeStone that tests for a full board before it tests for a win
placeStoneOutcome_DrawFirst(g, p) ==
    LET won == checkWin(g, p)
    IN  IF isDraw(g)
        THEN [g EXCEPT !.gameStatus = "draw"]
        ELSE IF won.ret
        THEN [won.game EXCEPT !.gameStatus =
                 IF g.currentPlayer = "black" THEN "blackWin" ELSE "whiteWin"]
        ELSE [g EXCEPT !.currentPlayer =
                 IF g.currentPlayer = "black" THEN "white" ELSE "black"]

\* placeStone passing the turn on after a win as well
placeStoneOutcome_FlipsOnWin(g, p) ==
    LET won == checkWin(g, p)
    IN  IF won.ret
        THEN [won.game EXCEPT !.gameStatus =
                 IF g.currentPlayer = "black" THEN "blackWin" ELSE "whiteWin",
                              !.currentPlayer =
                 IF g.currentPlayer = "black" THEN "white" ELSE "black"]
        ELSE IF isDraw(g)
        THEN [g EXCEPT !.gameStatus = "draw"]
        ELSE [g EXCEPT !.currentPlayer =
                 IF g.currentPlayer = "black" THEN "white" ELSE "black"]

\* placeStone from the win check on: win, draw, or the other player's turn
placeStoneOutcome(g, p) ==
    LET won == checkWin(g, p)
    IN  IF won.ret
        THEN [won.game EXCEPT !.gameStatus =
                 IF g.currentPlayer = "black" THEN "blackWin" ELSE "whiteWin"]
        ELSE IF isDraw(g)
        THEN [g EXCEPT !.gameStatus = "draw"]
        ELSE [g EXCEPT !.currentPlayer =
                 IF g.currentPlayer = "black" THEN "white" ELSE "black"]

placeStone(g, p) ==
    IF placeStoneRejects(g, p)
    THEN [ ret |-> FALSE, game |-> g ]
    ELSE [ ret |-> TRUE, game |-> placeStoneOutcome(placeStoneWrite(g, p), p) ]

\* undo without its check of the game status
undoRejects_NoStatusCheck(g) ==
    Len(g.history) = 0

\* the two early returns of undo
undoRejects(g) ==
    \/ Len(g.history) = 0
    \/ g.gameStatus # "playing"

\* undo that leaves the turn with whoever has it
undoApply_KeepsPlayer(g) ==
    LET lastHistoryItem == g.history[Len(g.history)]
        position == lastHistoryItem.position
        stone == lastHistoryItem.stone
        popped == SubSeq(g.history, 1, Len(g.history) - 1)
    IN  [g EXCEPT !.history = popped,
                  !.board[position] = None,
                  !.moveCount[stone] = @ - 1,
                  !.lastMove = IF Len(popped) > 0
                               THEN popped[Len(popped)].position
                               ELSE Null]

\* undo that leaves the stone on the board
undoApply_KeepsStone(g) ==
    LET lastHistoryItem == g.history[Len(g.history)]
        stone == lastHistoryItem.stone
        popped == SubSeq(g.history, 1, Len(g.history) - 1)
    IN  [g EXCEPT !.history = popped,
                  !.moveCount[stone] = @ - 1,
                  !.lastMove = IF Len(popped) > 0
                               THEN popped[Len(popped)].position
                               ELSE Null,
                  !.currentPlayer = IF Len(popped) > 0 THEN stone ELSE "black"]

\* undo that leaves lastMove on the stone it removed
undoApply_KeepsLastMove(g) ==
    LET lastHistoryItem == g.history[Len(g.history)]
        position == lastHistoryItem.position
        stone == lastHistoryItem.stone
        popped == SubSeq(g.history, 1, Len(g.history) - 1)
    IN  [g EXCEPT !.history = popped,
                  !.board[position] = None,
                  !.moveCount[stone] = @ - 1,
                  !.currentPlayer = IF Len(popped) > 0 THEN stone ELSE "black"]

\* undo that leaves the move counters as they were
undoApply_KeepsMoveCount(g) ==
    LET lastHistoryItem == g.history[Len(g.history)]
        position == lastHistoryItem.position
        stone == lastHistoryItem.stone
        popped == SubSeq(g.history, 1, Len(g.history) - 1)
    IN  [g EXCEPT !.history = popped,
                  !.board[position] = None,
                  !.lastMove = IF Len(popped) > 0
                               THEN popped[Len(popped)].position
                               ELSE Null,
                  !.currentPlayer = IF Len(popped) > 0 THEN stone ELSE "black"]

\* undo after its early returns
undoApply(g) ==
    LET lastHistoryItem == g.history[Len(g.history)]
        position == lastHistoryItem.position
        stone == lastHistoryItem.stone
        popped == SubSeq(g.history, 1, Len(g.history) - 1)
    IN  [g EXCEPT !.history = popped,
                  !.board[position] = None,
                  !.moveCount[stone] = @ - 1,
                  !.lastMove = IF Len(popped) > 0
                               THEN popped[Len(popped)].position
                               ELSE Null,
                  !.currentPlayer = IF Len(popped) > 0 THEN stone ELSE "black"]

undo(g) ==
    IF undoRejects(g)
    THEN [ ret |-> FALSE, game |-> g ]
    ELSE [ ret |-> TRUE, game |-> undoApply(g) ]

\* reset that forgets to clear the winning line
reset_KeepsWinningPositions(g) ==
    [g EXCEPT !.board = [c \in Cells(g.config.boardSize) |-> None],
              !.currentPlayer = "black",
              !.gameStatus = "playing",
              !.history = << >>,
              !.lastMove = Null,
              !.moveCount = [s \in Stone |-> 0]]

\* reset that forgets the move counters
reset_KeepsMoveCount(g) ==
    [g EXCEPT !.board = [c \in Cells(g.config.boardSize) |-> None],
              !.currentPlayer = "black",
              !.gameStatus = "playing",
              !.winningPositions = Null,
              !.history = << >>,
              !.lastMove = Null]

reset(g) ==
    [g EXCEPT !.board = [c \in Cells(g.config.boardSize) |-> None],
              !.currentPlayer = "black",
              !.gameStatus = "playing",
              !.winningPositions = Null,
              !.history = << >>,
              !.lastMove = Null,
              !.moveCount = [s \in Stone |-> 0]]

setGameStatus(g, status) ==
    [g EXCEPT !.gameStatus = status]

\* togglePause whose second branch is a bare else
togglePause_ResumesAny(g) ==
    IF g.gameStatus = "playing" THEN setGameStatus(g, "paused")
    ELSE setGameStatus(g, "playing")

\* GameController.togglePause: pause a running game, resume a paused one
togglePause(g) ==
    IF g.gameStatus = "playing" THEN setGameStatus(g, "paused")
    ELSE IF g.gameStatus = "paused" THEN setGameStatus(g, "playing")
    ELSE g

----------------------------------------------------------------------------
(* The getters of Game, each by what the engine holds after a caller has    *)
(* written into the value the getter returned: a getter that hands out a    *)
(* copy leaves the engine as it was, one that hands out the engine's own    *)
(* object lets the write through.                                           *)

\* getBoard copies every row: board[c] = v on the result writes to the copy
getBoardThenWrite(g, c, v) == g

\* getEmptyPositions builds a new array of new positions
getEmptyPositionsThenWrite(g, i, q) == g

\* getWinningPositions returns the engine's array: result[i] = q writes to it
getWinningPositionsThenWrite(g, i, q) ==
    IF g.winningPositions = Null \/ i > Len(g.winningPositions)
    THEN g
    ELSE [g EXCEPT !.winningPositions[i] = q]

\* getHistory copies the array and not its items: result[i].position = q
\* writes to the engine's item
getHistoryThenWrite(g, i, q) ==
    IF i > Len(g.history)
    THEN g
    ELSE [g EXCEPT !.history[i].position = q]

\* getLastMove returns the engine's position object, the one passed to
\* placeStone and kept in the last log entry: writing its row and col
\* changes both
getLastMoveThenWrite(g, q) ==
    IF g.lastMove = Null \/ Len(g.history) = 0
    THEN g
    ELSE [g EXCEPT !.lastMove = q,
                   !.history[Len(g.history)].position = q]

----------------------------------------------------------------------------
(* class AI of src/core/AI.ts: the move selector.  Its operations return    *)
(* the position proposed (ret) and the engine as the call leaves it (game). *)
(* Scores are kept as 20 times the value the code computes, which makes     *)
(* the centre penalty 0.1 * (|row - length/2| + |col - length/2|) the       *)
(* integer |2 row - length| + |2 col - length|.                             *)

Difficulty == {"easy", "normal", "hard"}

\* the opponentStone of getNormalMove and findBlockingMoves
\* the opponent taken to be the AI's own stone
opponentStone_Same(aiStone) == aiStone

opponentStone(aiStone) == IF aiStone = "black" THEN "white" ELSE "black"

\* board.length
length(b) == Cardinality({ c \in DOMAIN b : c[2] = 0 })

\* the array getEmptyPositions returns: the empty cells in row-major order
emptyPositionsOf(g) ==
    LET n == g.config.boardSize
        rowMajor == [ i \in 1 .. n * n |-> << (i - 1) \div n, (i - 1) % n >> ]
        isEmpty(c) == g.board[c] = None
    IN  SelectSeq(rowMajor, isEmpty)

\* the directions of evaluatePosition
directionsEvaluate ==
    << << << 0, 1 >>, << 0, -1 >> >>,
       << << 1, 0 >>, << -1, 0 >> >>,
       << << 1, 1 >>, << -1, -1 >> >>,
       << << 1, -1 >>, << -1, 1 >> >> >>

\* the directions of checkWinAt without the last one
directionsWinAt_NoAntiDiagonal ==
    << << << 0, 1 >>, << 0, -1 >> >>,
       << << 1, 0 >>, << -1, 0 >> >>,
       << << 1, 1 >>, << -1, -1 >> >> >>

\* the directions of checkWinAt
directionsWinAt ==
    << << << 0, 1 >>, << 0, -1 >> >>,
       << << 1, 0 >>, << -1, 0 >> >>,
       << << 1, 1 >>, << -1, -1 >> >>,
       << << 1, -1 >>, << -1, 1 >> >> >>

\* the while loops of evaluatePosition and checkWinAt: how many cells in a
\* row hold stone from <<r, c>> on, stepping by d, on a board of length n
RECURSIVE consecutives(_, _, _, _, _, _)
consecutives(b, n, r, c, d, stone) ==
    IF /\ r >= 0 /\ r < n
       /\ c >= 0 /\ c < n
       /\ b[<<r, c>>] = stone
    THEN 1 + consecutives(b, n, r + d[1], c + d[2], d, stone)
    ELSE 0

\* the open-end test of evaluatePosition: the while loop stepping by d from
\* position counted run stones, so it stopped run + 1 steps away
openEnd(b, n, position, d, run) ==
    LET r == position[1] + (run + 1) * d[1]
        c == position[2] + (run + 1) * d[2]
    IN  IF /\ r >= 0 /\ r < n
           /\ c >= 0 /\ c < n
           /\ b[<<r, c>>] = None
        THEN 1 ELSE 0

\* one turn of the inner loop of evaluatePosition: << consecutives, openEnds >>
halfAxisOf(b, n, position, d, run) == << run, openEnd(b, n, position, d, run) >>

halfAxis(b, n, position, d, stone) ==
    halfAxisOf(b, n, position, d,
               consecutives(b, n, position[1] + d[1], position[2] + d[2], d, stone))

\* the table of evaluatePosition without its line for four stones and one
\* open end
axisScore_NoBlockedFour(count, openEnds) ==
    IF count >= 5 THEN 100000
    ELSE IF count = 4
         THEN (IF openEnds = 2 THEN 10000 ELSE 0)
    ELSE IF count = 3
         THEN (IF openEnds = 2 THEN 500 ELSE IF openEnds = 1 THEN 100 ELSE 0)
    ELSE IF count = 2
         THEN (IF openEnds = 2 THEN 50 ELSE IF openEnds = 1 THEN 10 ELSE 0)
    ELSE 0

\* the score evaluatePosition adds for count stones with openEnds open ends
\* the table giving an open four the value of a five
axisScore_OpenFourAsFive(count, openEnds) ==
    IF count >= 5 THEN 100000
    ELSE IF count = 4
         THEN (IF openEnds = 2 THEN 100000 ELSE IF openEnds = 1 THEN 1000 ELSE 0)
    ELSE IF count = 3
         THEN (IF openEnds = 2 THEN 500 ELSE IF openEnds = 1 THEN 100 ELSE 0)
    ELSE IF count = 2
         THEN (IF openEnds = 2 THEN 50 ELSE IF openEnds = 1 THEN 10 ELSE 0)
    ELSE 0

axisScore(count, openEnds) ==
    IF count >= 5 THEN 100000
    ELSE IF count = 4
         THEN (IF openEnds = 2 THEN 10000 ELSE IF openEnds = 1 THEN 1000 ELSE 0)
    ELSE IF count = 3
         THEN (IF openEnds = 2 THEN 500 ELSE IF openEnds = 1 THEN 100 ELSE 0)
    ELSE IF count = 2
         THEN (IF openEnds = 2 THEN 50 ELSE IF openEnds = 1 THEN 10 ELSE 0)
    ELSE 0

\* the score of one direction, given what its two turns of the inner loop found
axisOf(forward, backward) ==
    axisScore(1 + forward[1] + backward[1], forward[2] + backward[2])

\* the outer loop of evaluatePosition from directions[i] on
RECURSIVE evaluateFrom(_, _, _, _, _)
evaluateFrom(b, n, position, stone, i) ==
    IF i > Len(directionsEvaluate)
    THEN 0
    ELSE axisOf(halfAxis(b, n, position, directionsEvaluate[i][1], stone),
                halfAxis(b, n, position, directionsEvaluate[i][2], stone))
           + evaluateFrom(b, n, position, stone, i + 1)

evaluatePosition(b, position, stone) ==
    evaluateFrom(b, length(b), position, stone, 1)

\* the count checkWinAt reaches on one direction
countWinAt(b, n, position, direction, stone) ==
    1 + consecutives(b, n, position[1] + direction[1][1],
                     position[2] + direction[1][2], direction[1], stone)
      + consecutives(b, n, position[1] + direction[2][1],
                     position[2] + direction[2][2], direction[2], stone)

checkWinAt(b, position, stone, winCount) ==
    \E i \in 1 .. Len(directionsWinAt) :
        countWinAt(b, length(b), position, directionsWinAt[i], stone) >= winCount

createBoardCopy(b) == [ c \in DOMAIN b |-> b[c] ]

\* getRandomMove, randomIndex being floor(Math.random() * emptyPositions.length)
getRandomMove(emptyPositions, randomIndex) ==
    emptyPositions[randomIndex + 1]

\* the loops of getNormalMove, findWinningMoves and findBlockingMoves from
\* positions[from] on: write stone at the position, test it, and either stop
\* with the stone left on boardCopy or write null back and go on.  found is
\* the positions that tested true so far; the result is found and boardCopy
\* when the loop ends.  stopAtFirst tells the loop that returns from the loop
\* that collects.
RECURSIVE tryPositions(_, _, _, _, _, _, _)
tryPositions(boardCopy, positions, from, stone, winCount, stopAtFirst, found) ==
    IF from > Len(positions)
    THEN [ found |-> found, boardCopy |-> boardCopy ]
    ELSE IF checkWinAt([boardCopy EXCEPT ![positions[from]] = stone],
                       positions[from], stone, winCount)
    THEN IF stopAtFirst
         THEN [ found |-> Append(found, positions[from]),
                boardCopy |-> [boardCopy EXCEPT ![positions[from]] = stone] ]
         ELSE tryPositions([boardCopy EXCEPT ![positions[from]] = None],
                           positions, from + 1, stone, winCount, stopAtFirst,
                           Append(found, positions[from]))
    ELSE tryPositions([boardCopy EXCEPT ![positions[from]] = None],
                      positions, from + 1, stone, winCount, stopAtFirst, found)

\* 20 times the score getNormalMove gives a position
score20(b, pos, aiStone) ==
    LET n == length(b)
        abs(x) == IF x < 0 THEN -x ELSE x
    IN  20 * evaluatePosition(b, pos, aiStone)
          - 20 * evaluatePosition(b, pos, opponentStone(aiStone))
          - (abs(2 * pos[1] - n) + abs(2 * pos[2] - n))

\* the last loop of getNormalMove from positions[from] on, scores[i] being the
\* score of positions[i], and bestMove and bestScore what the loop has so far
\* (bestScore is Null for -Infinity)
RECURSIVE bestFrom(_, _, _, _, _)
bestFrom(positions, scores, from, bestMove, bestScore) ==
    IF from > Len(positions)
    THEN bestMove
    ELSE IF bestScore = Null \/ scores[from] > bestScore[1]
    THEN bestFrom(positions, scores, from + 1, positions[from], << scores[from] >>)
    ELSE bestFrom(positions, scores, from + 1, bestMove, bestScore)

\* getNormalMove once neither loop returned: the scored choice
getNormalMoveScored(b, emptyPositions, aiStone, boardCopy) ==
    [ ret |-> bestFrom(emptyPositions,
                       [ i \in 1 .. Len(emptyPositions) |->
                             score20(b, emptyPositions[i], aiStone) ],
                       1, emptyPositions[1], Null),
      boardCopy |-> boardCopy ]

\* getNormalMove after its second loop, which left block
getNormalMoveBlocked(b, emptyPositions, aiStone, block) ==
    IF block.found # << >>
    THEN [ ret |-> block.found[1], boardCopy |-> block.boardCopy ]
    ELSE getNormalMoveScored(b, emptyPositions, aiStone, block.boardCopy)

\* getNormalMove going on to its second loop whatever the first one found
getNormalMoveWon_SkipsWin(b, emptyPositions, aiStone, winCount, win) ==
    getNormalMoveBlocked(b, emptyPositions, aiStone,
        tryPositions(createBoardCopy(b), emptyPositions, 1,
                     opponentStone(aiStone), winCount, TRUE, << >>))

\* getNormalMove after its first loop, which left win
getNormalMoveWon(b, emptyPositions, aiStone, winCount, win) ==
    IF win.found # << >>
    THEN [ ret |-> win.found[1], boardCopy |-> win.boardCopy ]
    ELSE getNormalMoveBlocked(b, emptyPositions, aiStone,
             tryPositions(win.boardCopy, emptyPositions, 1,
                          opponentStone(aiStone), winCount, TRUE, << >>))

\* getNormalMove: the position returned and boardCopy as the call leaves it
normalSearch(b, emptyPositions, aiStone, winCount) ==
    getNormalMoveWon(b, emptyPositions, aiStone, winCount,
        tryPositions(createBoardCopy(b), emptyPositions, 1,
                     aiStone, winCount, TRUE, << >>))

\* getNormalMove with the simulation done on the engine's own board
getNormalMove_OnLiveBoard(g, b, emptyPositions, aiStone) ==
    [ ret |-> normalSearch(b, emptyPositions, aiStone, g.config.winCount).ret,
      game |-> [g EXCEPT !.board =
                   normalSearch(b, emptyPositions, aiStone, g.config.winCount).boardCopy] ]

\* getNormalMove: every write goes to boardCopy, a copy of the copy getBoard made
getNormalMove(g, b, emptyPositions, aiStone) ==
    [ ret |-> normalSearch(b, emptyPositions, aiStone, g.config.winCount).ret,
      game |-> g ]

findWinningMoves(g, b, emptyPositions, aiStone) ==
    tryPositions(createBoardCopy(b), emptyPositions, 1,
                 aiStone, g.config.winCount, FALSE, << >>).found

findBlockingMoves(g, b, emptyPositions, aiStone) ==
    tryPositions(createBoardCopy(b), emptyPositions, 1,
                 opponentStone(aiStone), g.config.winCount, FALSE, << >>).found

\* getHardMove looking at blockingMoves before winningMoves
getHardMoveOf_BlockFirst(bestMove, winningMoves, blockingMoves) ==
    IF Len(blockingMoves) > 0
    THEN [ ret |-> blockingMoves[1], game |-> bestMove.game ]
    ELSE IF Len(winningMoves) > 0
    THEN [ ret |-> winningMoves[1], game |-> bestMove.game ]
    ELSE bestMove

\* the returns of getHardMove
getHardMoveOf(bestMove, winningMoves, blockingMoves) ==
    IF Len(winningMoves) > 0
    THEN [ ret |-> winningMoves[1], game |-> bestMove.game ]
    ELSE IF Len(blockingMoves) > 0
    THEN [ ret |-> blockingMoves[1], game |-> bestMove.game ]
    ELSE bestMove

getHardMove(g, b, emptyPositions, aiStone) ==
    getHardMoveOf(getNormalMove(g, b, emptyPositions, aiStone),
                  findWinningMoves(g, b, emptyPositions, aiStone),
                  findBlockingMoves(g, b, emptyPositions, aiStone))

\* getNextMove proposing the centre without looking at how many cells are empty
getNextMoveOf_AlwaysCenter(g, b, emptyPositions, aiStone, difficulty, randomIndex) ==
    [ ret |-> << length(b) \div 2, length(b) \div 2 >>, game |-> g ]

\* getNextMove with the centre taken as floor((board.length - 1) / 2)
getNextMoveOf_CenterRoundedDown(g, b, emptyPositions, aiStone, difficulty, randomIndex) ==
    IF Len(emptyPositions) = 0
    THEN [ ret |-> Null, game |-> g ]
    ELSE IF Len(emptyPositions) = length(b) * length(b)
    THEN [ ret |-> << (length(b) - 1) \div 2, (length(b) - 1) \div 2 >>, game |-> g ]
    ELSE IF difficulty = "normal"
    THEN getNormalMove(g, b, emptyPositions, aiStone)
    ELSE IF difficulty = "hard"
    THEN getHardMove(g, b, emptyPositions, aiStone)
    ELSE [ ret |-> getRandomMove(emptyPositions, randomIndex), game |-> g ]

\* the switch of getNextMove
getNextMoveOf(g, b, emptyPositions, aiStone, difficulty, randomIndex) ==
    IF Len(emptyPositions) = 0
    THEN [ ret |-> Null, game |-> g ]
    ELSE IF Len(emptyPositions) = length(b) * length(b)
    THEN [ ret |-> << length(b) \div 2, length(b) \div 2 >>, game |-> g ]
    ELSE IF difficulty = "normal"
    THEN getNormalMove(g, b, emptyPositions, aiStone)
    ELSE IF difficulty = "hard"
    THEN getHardMove(g, b, emptyPositions, aiStone)
    ELSE [ ret |-> getRandomMove(emptyPositions, randomIndex), game |-> g ]

\* getNextMove of an AI built with (game, aiStone, difficulty); randomIndex is
\* the index getRandomMove draws, used by the easy tier only; board is the
\* copy getBoard returns
getNextMove(g, aiStone, difficulty, randomIndex) ==
    getNextMoveOf(g, g.board, emptyPositionsOf(g), aiStone, difficulty, randomIndex)

----------------------------------------------------------------------------
(* The state machine *)

\* the engine's fields become those of g
Becomes(g) ==
    /\ config' = g.config
    /\ board' = g.board
    /\ currentPlayer' = g.currentPlayer
    /\ gameStatus' = g.gameStatus
    /\ winningPositions' = g.winningPositions
    /\ history' = g.history
    /\ lastMove' = g.lastMove
    /\ moveCount' = g.moveCount

\* the state after new Game({boardSize, winCount}) for one of the given pairs
Constructed(pairs) ==
    \E cfg \in pairs :
        /\ config = [boardSize |-> cfg[1], winCount |-> cfg[2]]
        /\ board = constructor(config).board
        /\ currentPlayer = constructor(config).currentPlayer
        /\ gameStatus = constructor(config).gameStatus
        /\ winningPositions = constructor(config).winningPositions
        /\ history = constructor(config).history
        /\ lastMove = constructor(config).lastMove
        /\ moveCount = constructor(config).moveCount
        /\ statusForced = FALSE
        /\ pendingAI = 0
        /\ ai = None
        /\ isReviewMode = FALSE
        /\ reviewHistory = << >>
        /\ reviewIndex = 0

Init == Constructed(Configs)

PlaceStone ==
    \E p \in Inputs(config.boardSize) :
        /\ Len(history) < MaxMoves
        /\ Becomes(placeStone(this, p).game)
        /\ UNCHANGED << statusForced, pendingAI, ai, reviewVars >>

Undo ==
    /\ Becomes(undo(this).game)
    /\ UNCHANGED << statusForced, pendingAI, ai, reviewVars >>

Reset ==
    /\ Becomes(reset(this))
    /\ UNCHANGED << statusForced, pendingAI, ai, reviewVars >>

TogglePause ==
    /\ Becomes(togglePause(this))
    /\ UNCHANGED << statusForced, pendingAI, ai, reviewVars >>

Next ==
    \/ PlaceStone
    \/ Undo
    \/ Reset
    \/ TogglePause

Spec == Init /\ [][Next]_vars

\* the engine driven by placeStone, undo and pause/resume alone
NextPlay ==
    \/ PlaceStone
    \/ Undo
    \/ TogglePause

SpecPlay == Init /\ [][NextPlay]_vars

\* a caller of the engine's public interface that passes setGameStatus any status
SetGameStatus ==
    \E status \in GameStatus :
        /\ Becomes(setGameStatus(this, status))
        /\ statusForced' =
               (statusForced \/ << gameStatus, status >> \notin
                                   { << "playing", "paused" >>, << "paused", "playing" >> })
        /\ UNCHANGED << pendingAI, ai, reviewVars >>

NextAPI ==
    \/ PlaceStone
    \/ Undo
    \/ Reset
    \/ SetGameStatus

InitAPI == Constructed(ConfigsAPI)

SpecAPI == InitAPI /\ [][NextAPI]_vars

\* the indices getRandomMove can draw in engine g; the other tiers draw none
RandomIndices(g, difficulty) ==
    IF difficulty # "easy" \/ Len(emptyPositionsOf(g)) = 0 THEN {0}
    ELSE 0 .. Len(emptyPositionsOf(g)) - 1

\* a move of the player in the game played with the selector
PlayerMove ==
    /\ Len(history) < MaxMovesAI
    /\ PlaceStone

\* what makeAIMove does with the selector's answer
placeProposed(move) ==
    IF move.ret = Null
    THEN move.game
    ELSE placeStone(move.game, move.ret).game

\* makeAIMove: ask the selector for a position and place it if there is one
AIMove ==
    \E aiStone \in Stone, difficulty \in Difficulty :
        \E randomIndex \in RandomIndices(this, difficulty) :
            /\ Len(history) < MaxMovesAI
            /\ Becomes(placeProposed(getNextMove(this, aiStone, difficulty, randomIndex)))
            /\ UNCHANGED << statusForced, pendingAI, ai, reviewVars >>

NextAI ==
    \/ PlayerMove
    \/ Undo
    \/ AIMove

InitAI == Constructed(ConfigsAI)

SpecAI == InitAI /\ [][NextAI]_vars

\* the tiers that look for threats
Tiers == {"normal", "hard"}

\* makeAIMove of an AI built at one of these tiers, for either stone
TierMove ==
    \E aiStone \in Stone, difficulty \in Tiers :
        /\ Len(history) < MaxMovesAI
        /\ Becomes(placeProposed(getNextMove(this, aiStone, difficulty, 0)))
        /\ UNCHANGED << statusForced, pendingAI, ai, reviewVars >>

NextTiers ==
    \/ PlayerMove
    \/ Undo
    \/ TierMove

SpecTiers == InitAI /\ [][NextTiers]_vars

----------------------------------------------------------------------------
(* Games that build lines: black places its stones along one line of the    *)
(* board, from its first cell on, and white answers on the first empty cell *)
(* of the board.  They give evaluatePosition runs of up to five stones with *)
(* open, blocked and off-board ends on boards of 4, 5 and 6 cells a side.   *)

\* the lines black builds on a board of n cells a side: the last row, the
\* last column and the two diagonals
Lines(n) ==
    { { << n - 1, i >> : i \in 0 .. n - 1 },
      { << i, n - 1 >> : i \in 0 .. n - 1 },
      { << i, i >> : i \in 0 .. n - 1 },
      { << i, n - 1 - i >> : i \in 0 .. n - 1 } }

\* placeStone by black, on a line that holds all its stones, past the last of them
BlackOnLine ==
    \E L \in Lines(config.boardSize) : \E p \in L :
        /\ Len(history) < MaxMovesLine
        /\ currentPlayer = "black"
        /\ \A q \in Cells(config.boardSize) :
               board[q] = "black" =>
                   /\ q \in L
                   /\ (q[1] < p[1] \/ (q[1] = p[1] /\ q[2] < p[2]))
        /\ Becomes(placeStone(this, p).game)
        /\ UNCHANGED << statusForced, pendingAI, ai, reviewVars >>

\* placeStone by white, on the first empty cell in row-major order
WhiteReply ==
    /\ Len(history) < MaxMovesLine
    /\ currentPlayer = "white"
    /\ Len(emptyPositionsOf(this)) > 0
    /\ Becomes(placeStone(this, emptyPositionsOf(this)[1]).game)
    /\ UNCHANGED << statusForced, pendingAI, ai, reviewVars >>

NextLine ==
    \/ BlackOnLine
    \/ WhiteReply

InitLine == Constructed(ConfigsLine)

SpecLine == InitLine /\ [][NextLine]_vars

----------------------------------------------------------------------------------------------------------------------------------------
(* class GameController of src/main.ts: the handlers of the board and of the    *)
(* buttons, and makeAIMove, which waits 500 ms between the click that       *)
(* starts it and its call of getNextMove.  The controller's engines are     *)
(* built by new Game() and new Game({gameMode}), so their boardSize and     *)
(* winCount are always the defaults, the config of the first engine.        *)

\* the stone resetGame builds the AI with
aiStoneUI == "white"

\* the difficulty resetGame builds the AI with
difficultyUI == "normal"

GameMode == {"pvp", "pve"}

\* config.gameMode of the controller's engine: resetGame builds the engine
\* with the mode and the AI exactly when the mode is 'pve'
gameMode == IF ai = None THEN "pvp" ELSE "pve"

\* handleCellClick once placeStone answered placed: a makeAIMove is started
\* when the stone was placed, the game goes on, there is an AI and white is
\* to move
pendingAfterClick(placed) ==
    IF /\ placed.ret
       /\ placed.game.gameStatus = "playing"
       /\ ai # None
       /\ placed.game.currentPlayer = "white"
    THEN pendingAI + 1
    ELSE pendingAI

\* handleCellClick(row, col): ignored on the AI's turn
HandleCellClick ==
    \E p \in Cells(config.boardSize) :
        /\ Len(history) < MaxMovesUI
        /\ pendingAI < MaxPending
        /\ ~(ai # None /\ currentPlayer = "white")
        /\ Becomes(placeStone(this, p).game)
        /\ pendingAI' = pendingAfterClick(placeStone(this, p))
        /\ UNCHANGED << statusForced, ai, reviewVars >>

\* makeAIMove from the end of its delay on: this.ai!.getNextMove() throws
\* when ai is null, and nothing more of the handler runs
makeAIMoveOf(randomIndex) ==
    IF ai = None
    THEN this
    ELSE placeProposed(getNextMove(this, aiStoneUI, ai, randomIndex))

\* makeAIMove resuming after its delay
MakeAIMove ==
    /\ pendingAI > 0
    /\ \E randomIndex \in RandomIndices(this, ai) :
           Becomes(makeAIMoveOf(randomIndex))
    /\ pendingAI' = pendingAI - 1
    /\ UNCHANGED << statusForced, ai, reviewVars >>

\* undoMove once undo answered first: with an AI and a log that is not empty,
\* a second undo follows a successful one
undoMoveOf(first) ==
    IF first.ret /\ ai # None /\ Len(first.game.history) > 0
    THEN undo(first.game).game
    ELSE first.game

\* undoMove
UndoMove ==
    /\ Becomes(undoMoveOf(undo(this)))
    /\ UNCHANGED << statusForced, pendingAI, ai, reviewVars >>

\* resetGame(mode): a new Game({gameMode: mode}), and a new AI or none
resetGame(mode) ==
    [ game |-> constructor(config),
      ai |-> IF mode = "pve" THEN difficultyUI ELSE None ]

\* resetGame(): the mode is the one of the engine in place; the calls of
\* makeAIMove that wait go on waiting
ResetGame ==
    /\ Becomes(resetGame(gameMode).game)
    /\ ai' = resetGame(gameMode).ai
    /\ UNCHANGED << statusForced, pendingAI, reviewVars >>

\* switchGameMode(mode)
SwitchGameMode ==
    \E mode \in GameMode :
        /\ Becomes(resetGame(mode).game)
        /\ ai' = resetGame(mode).ai
        /\ UNCHANGED << statusForced, pendingAI, reviewVars >>

\* saveSettings with boardSize, winCount and aiDifficulty read from the
\* form: of newConfig only the gameMode is passed on
saveSettings(boardSize, winCount, aiDifficulty) == resetGame(gameMode)

\* what the form of the settings can hold
SettingsForm == ConfigsUI \X Difficulty

\* the click on Save with form in the settings dialog
SaveSettingsOf(form) ==
    /\ Becomes(saveSettings(form[1][1], form[1][2], form[2]).game)
    /\ ai' = saveSettings(form[1][1], form[1][2], form[2]).ai
    /\ UNCHANGED << statusForced, pendingAI, reviewVars >>

SaveSettings ==
    \E form \in SettingsForm : SaveSettingsOf(form)

NextUI ==
    \/ HandleCellClick
    \/ MakeAIMove
    \/ UndoMove
    \/ TogglePause
    \/ ResetGame
    \/ SwitchGameMode
    \/ SaveSettings

InitUI == Constructed(ConfigsUI)

SpecUI == InitUI /\ [][NextUI]_vars

----------------------------------------------------------------------------
(* The review of a finished game (src/main.ts 778-910).  getBoard returns  *)
(* a copy of the board, so the loops that write board[row][col] reach no    *)
(* field of the engine; replayToStep assigns game['lastMove'] itself.       *)

\* replayToStep: the engine after the assignment of game['lastMove']
replayToStep(g, items, index) ==
    [g EXCEPT !.lastMove = IF index > 0 THEN items[index].position ELSE Null]

\* startReview, by the button of the game-end modal that showGameResult
\* opens; it returns at once on an empty log
StartReview ==
    /\ gameStatus \in {"blackWin", "whiteWin", "draw"}
    /\ Len(history) > 0
    /\ reviewHistory' = history
    /\ reviewIndex' = 0
    /\ isReviewMode' = TRUE
    /\ Becomes(this)
    /\ UNCHANGED << statusForced, pendingAI, ai >>

\* prevStep
PrevStep ==
    /\ isReviewMode
    /\ reviewIndex > 0
    /\ reviewIndex' = reviewIndex - 1
    /\ Becomes(replayToStep(this, reviewHistory, reviewIndex - 1))
    /\ UNCHANGED << statusForced, pendingAI, ai, isReviewMode, reviewHistory >>

\* nextStep
NextStep ==
    /\ isReviewMode
    /\ reviewIndex < Len(reviewHistory)
    /\ reviewIndex' = reviewIndex + 1
    /\ Becomes(replayToStep(this, reviewHistory, reviewIndex + 1))
    /\ UNCHANGED << statusForced, pendingAI, ai, isReviewMode, reviewHistory >>

\* exitReview: the board it rebuilds from the log is a copy as well
ExitReview ==
    /\ isReviewMode
    /\ isReviewMode' = FALSE
    /\ reviewHistory' = << >>
    /\ reviewIndex' = 0
    /\ Becomes(this)
    /\ UNCHANGED << statusForced, pendingAI, ai >>

NextReview ==
    \/ HandleCellClick
    \/ StartReview
    \/ PrevStep
    \/ NextStep
    \/ ExitReview

SpecReview == InitUI /\ [][NextReview]_vars

----------------
(* Vocabulary of the properties *)

size == config.boardSize

WinStatuses == {"blackWin", "whiteWin"}

WinStatus(stone) == IF stone = "black" THEN "blackWin" ELSE "whiteWin"

\* one step along each of the four axes
AxisSteps == { <<0, 1>>, <<1, 0>>, <<1, 1>>, <<1, -1>> }

\* the position k steps of d from p
Shift(p, d, k) == << p[1] + k * d[1], p[2] + k * d[2] >>

\* on board b, some n consecutive cells of one axis include p and all hold stone
HasRunThrough(b, p, stone, n) ==
    \E d \in AxisSteps : \E k \in 0 .. n - 1 :
        \A j \in 0 .. n - 1 :
            /\ Shift(p, d, j - k) \in Cells(size)
            /\ b[Shift(p, d, j - k)] = stone

Range(seq) == { seq[i] : i \in 1 .. Len(seq) }

Abs(x) == IF x < 0 THEN -x ELSE x

OtherPlayer(stone) == IF stone = "black" THEN "white" ELSE "black"

Occupied == { c \in Cells(size) : board[c] # None }

\* the fields a rejected call must leave alone are all the fields of the engine
Rejected(g) == [ ret |-> FALSE, game |-> g ]

----------------------------------------------------------------------------
(* C1: placeStone(p) returns false and changes no field of the engine when  *)
(* p is out of range, when the cell at p is occupied, and when the status   *)
(* is not 'playing' (paused included).                                      *)
C1_RejectedPlaceChangesNothing ==
    \A p \in Inputs(size) :
        ( \/ p \notin Cells(size)
          \/ (p \in Cells(size) /\ board[p] \in Stone)
          \/ gameStatus # "playing" )
        => placeStone(this, p) = Rejected(this)

C1_Witness ==
    /\ gameStatus = "paused"
    /\ Len(history) > 0
    /\ \E p \in Cells(size) : board[p] = None /\ placeStone(this, p) = Rejected(this)

(* C2 as stated: from a state with status 'playing', after any successful   *)
(* placeStone(p) an immediate undo() succeeds and restores board, log,      *)
(* currentPlayer and lastMove.                                              *)
C2_Original ==
    gameStatus = "playing" =>
        \A p \in Inputs(size) :
            LET placed == placeStone(this, p)
                undone == undo(placed.game)
            IN  placed.ret =>
                    /\ undone.ret
                    /\ undone.game.board = board
                    /\ undone.game.history = history
                    /\ undone.game.currentPlayer = currentPlayer
                    /\ undone.game.lastMove = lastMove

(* C2 amended: the same, for every successful placeStone(p) that leaves the *)
(* status 'playing' (one that ends the game by a win or a draw cannot be    *)
(* undone).                                                                 *)
C2_PlaceThenUndoRestores ==
    gameStatus = "playing" =>
        \A p \in Inputs(size) :
            LET placed == placeStone(this, p)
                undone == undo(placed.game)
            IN  (placed.ret /\ placed.game.gameStatus = "playing") =>
                    /\ undone.ret
                    /\ undone.game.board = board
                    /\ undone.game.history = history
                    /\ undone.game.currentPlayer = currentPlayer
                    /\ undone.game.lastMove = lastMove

C2_Witness ==
    /\ gameStatus = "playing"
    /\ Len(history) >= 2
    /\ \E p \in Cells(size) :
           /\ placeStone(this, p).ret
           /\ placeStone(this, p).game.gameStatus = "playing"
           /\ undo(placeStone(this, p).game).ret
           /\ undo(placeStone(this, p).game).game.lastMove = lastMove

(* C3: the number of non-empty cells equals the log length, every log       *)
(* entry's position holds that entry's stone, and log length plus the       *)
(* number of empty cells is boardSize squared.                              *)
C3_BoardMatchesLog ==
    /\ Cardinality(Occupied) = Len(history)
    /\ \A i \in 1 .. Len(history) : board[history[i].position] = history[i].stone
    /\ Len(history) + Cardinality(getEmptyPositions(this)) = size * size

C3_Witness ==
    /\ size = 3
    /\ Len(history) = 4
    /\ Cardinality(Occupied) = 4
    /\ Cardinality(getEmptyPositions(this)) = 5

(* C4: whenever the status is 'playing', currentPlayer is black if the log  *)
(* length is even and white if it is odd.                                   *)
C4_TurnFollowsLogParity ==
    gameStatus = "playing" =>
        currentPlayer = IF Len(history) % 2 = 0 THEN "black" ELSE "white"

C4_Witness ==
    /\ gameStatus = "playing"
    /\ Len(history) = 3
    /\ currentPlayer = "white"

(* C5: a successful placeStone(p) by stone s sets the status to s's win if  *)
(* and only if, with the stone written, one of the four axes through p has  *)
(* winCount or more consecutive cells holding s that include p; it never    *)
(* sets the other stone's win.                                              *)
C5_WinIffRunThroughPlaced ==
    \A p \in Inputs(size) :
        LET placed == placeStone(this, p)
        IN  placed.ret =>
                /\ (placed.game.gameStatus = WinStatus(currentPlayer))
                       <=> HasRunThrough(placed.game.board, p, currentPlayer,
                                         config.winCount)
                /\ placed.game.gameStatus \in WinStatuses
                       => placed.game.gameStatus = WinStatus(currentPlayer)

C5_Witness ==
    /\ gameStatus = "whiteWin"
    /\ HasRunThrough(board, lastMove, "white", config.winCount)

(* C6: whenever the status is blackWin or whiteWin, winningPositions holds  *)
(* at least winCount distinct positions, each holding the winner's stone,   *)
(* all on one axis without a gap, the last placed position among them.      *)
C6_WinningLineIsARun ==
    gameStatus \in WinStatuses =>
        LET line == winningPositions
            winner == IF gameStatus = "blackWin" THEN "black" ELSE "white"
        IN  /\ Len(line) >= config.winCount
            /\ Cardinality(Range(line)) = Len(line)
            /\ \A q \in Range(line) : q \in Cells(size) /\ board[q] = winner
            /\ \E d \in AxisSteps : \E base \in Range(line) :
                   Range(line) = { Shift(base, d, k) : k \in 0 .. Len(line) - 1 }
            /\ lastMove \in Range(line)
            /\ lastMove = history[Len(history)].position

C6_Witness ==
    /\ gameStatus = "blackWin"
    /\ Len(winningPositions) > config.winCount

(* C7: the status becomes 'draw' exactly on a successful placeStone after   *)
(* which every cell is occupied and which did not produce a win; no other   *)
(* operation makes it 'draw'; and in every state with status 'draw' there   *)
(* is no empty position and winningPositions is null.                       *)
C7_DrawIffFullWithoutWin ==
    /\ \A p \in Inputs(size) :
           LET placed == placeStone(this, p)
           IN  (gameStatus # "draw" /\ placed.game.gameStatus = "draw")
                   <=> /\ placed.ret
                       /\ getEmptyPositions(placed.game) = {}
                       /\ ~HasRunThrough(placed.game.board, p, currentPlayer,
                                         config.winCount)
    /\ gameStatus # "draw" =>
           /\ undo(this).game.gameStatus # "draw"
           /\ reset(this).gameStatus # "draw"
           /\ togglePause(this).gameStatus # "draw"
    /\ gameStatus = "draw" =>
           /\ getEmptyPositions(this) = {}
           /\ winningPositions = Null

C7_Witness ==
    /\ gameStatus = "draw"
    /\ Len(history) = size * size

(* C8: undo() returns false and changes no field of the engine when the log *)
(* is empty and when the status is not 'playing'.                           *)
C8_RejectedUndoChangesNothing ==
    (Len(history) = 0 \/ gameStatus \in GameStatus \ {"playing"})
        => undo(this) = Rejected(this)

C8_Witness ==
    /\ gameStatus = "blackWin"
    /\ Len(history) > 0
    /\ undo(this) = Rejected(this)

(* C9: in every step that is a placeStone, an undo or a togglePause, the    *)
(* status changes only from 'playing' to a win or a draw, by a successful   *)
(* placeStone, or between 'playing' and 'paused', by togglePause; so a      *)
(* status of blackWin, whiteWin or draw never changes in such a step.       *)
C9_StatusTransitions ==
    [][ ((PlaceStone \/ Undo \/ TogglePause) /\ gameStatus' # gameStatus) =>
           \/ /\ gameStatus = "playing"
              /\ gameStatus' \in {"blackWin", "whiteWin", "draw"}
              /\ \E p \in Inputs(size) :
                     placeStone(this, p).ret /\ Becomes(placeStone(this, p).game)
           \/ /\ gameStatus = "playing"
              /\ gameStatus' = "paused"
              /\ Becomes(togglePause(this))
           \/ /\ gameStatus = "paused"
              /\ gameStatus' = "playing"
              /\ Becomes(togglePause(this)) ]_vars

C9_Witness ==
    /\ gameStatus = "paused"
    /\ Len(history) > 0
    /\ togglePause(this).gameStatus = "playing"

(* C10 as stated: after any placeStone, undo, reset and setGameStatus       *)
(* calls, winningPositions is non-null if and only if the status is         *)
(* blackWin or whiteWin.                                                    *)
C10_Original ==
    (winningPositions # Null) <=> (gameStatus \in WinStatuses)

(* C10 amended: the same, as long as setGameStatus has only been called to  *)
(* pause a 'playing' game or to resume a 'paused' one.                      *)
C10_WinningLineIffWon ==
    ~statusForced =>
        ((winningPositions # Null) <=> (gameStatus \in WinStatuses))

C10_Witness ==
    /\ ~statusForced
    /\ gameStatus = "blackWin"
    /\ winningPositions # Null
    /\ moveCount["black"] = 2

----------------------------------------------------------------------------
(* C11: getBoard, getWinningPositions, getHistory, getLastMove and          *)
(* getEmptyPositions return values that share nothing with the engine:      *)
(* whatever a caller writes into a returned value (or into the position it  *)
(* passed to placeStone, which getLastMove returns), the engine's fields,   *)
(* and so what the getters return later, stay as they were.                 *)
C11_GettersShareNothing ==
    \A q \in Cells(size) :
        /\ \A c \in Cells(size) : getBoardThenWrite(this, c, "black") = this
        /\ \A i \in 1 .. size * size : getEmptyPositionsThenWrite(this, i, q) = this
        /\ \A i \in 1 .. size * size : getWinningPositionsThenWrite(this, i, q) = this
        /\ \A i \in 1 .. size * size : getHistoryThenWrite(this, i, q) = this
        /\ getLastMoveThenWrite(this, q) = this

(* C12: every constructed engine has boardSize >= winCount (a Config with   *)
(* winCount > boardSize is rejected or clamped by the constructor).         *)
C12_BoardFitsWinCount ==
    config.boardSize >= config.winCount

(* C13: on an engine whose winCount exceeds boardSize the status is never a *)
(* win, it is 'draw' exactly when the log holds boardSize squared entries,  *)
(* and until then the game goes on ('playing', or 'paused' by togglePause). *)
C13_OversizedWinCountEndsInDraw ==
    config.winCount > config.boardSize =>
        /\ gameStatus \notin WinStatuses
        /\ (gameStatus = "draw") <=> (Len(history) = size * size)
        /\ Len(history) < size * size => gameStatus \in {"playing", "paused"}
        /\ \A p \in Inputs(size) :
               placeStone(this, p).game.gameStatus \notin WinStatuses

C13_Witness ==
    /\ config.winCount > config.boardSize
    /\ gameStatus = "draw"
    /\ Len(history) = size * size
    /\ moveCount["white"] = 2

(* C14: in a state whose status is blackWin, whiteWin or draw every         *)
(* placeStone and every undo returns false and changes nothing (so the      *)
(* status stays what it is); a placeStone or an undo that is accepted       *)
(* starts from status 'playing'.                                            *)
C14_OnlyPlayingAcceptsMoves ==
    /\ gameStatus \in {"blackWin", "whiteWin", "draw"} =>
           /\ \A p \in Inputs(size) : placeStone(this, p) = Rejected(this)
           /\ undo(this) = Rejected(this)
    /\ \A p \in Inputs(size) : placeStone(this, p).ret => gameStatus = "playing"
    /\ undo(this).ret => gameStatus = "playing"

C14_Witness ==
    /\ gameStatus = "whiteWin"
    /\ \E p \in Cells(size) : board[p] = None /\ placeStone(this, p) = Rejected(this)
    /\ undo(this) = Rejected(this)

(* C15: lastMove is null when the log is empty and the position of the last *)
(* log entry otherwise; a successful undo leaves lastMove on the new last   *)
(* entry, and when it empties the log it leaves lastMove null and           *)
(* currentPlayer black.                                                     *)
C15_LastMoveIsLogTail ==
    /\ lastMove = IF Len(history) = 0 THEN Null
                  ELSE history[Len(history)].position
    /\ undo(this).ret =>
           LET after == undo(this).game
           IN  /\ Len(after.history) = Len(history) - 1
               /\ Len(after.history) > 0 =>
                      after.lastMove = history[Len(history) - 1].position
               /\ Len(after.history) = 0 =>
                      after.lastMove = Null /\ after.currentPlayer = "black"

C15_Witness ==
    /\ Len(history) >= 2
    /\ lastMove = history[Len(history)].position
    /\ undo(this).ret
    /\ undo(this).game.lastMove = history[Len(history) - 1].position
    /\ undo(this).game.lastMove # lastMove

(* C16: the i-th log entry has moveNumber i, and the entry a successful     *)
(* placeStone appends has the new log length as its moveNumber.             *)
C16_MoveNumberIsIndex ==
    /\ \A i \in 1 .. Len(history) : history[i].moveNumber = i
    /\ \A p \in Inputs(size) :
           LET placed == placeStone(this, p)
           IN  placed.ret =>
                   /\ Len(placed.game.history) = Len(history) + 1
                   /\ placed.game.history[Len(history) + 1].moveNumber
                          = Len(placed.game.history)

C16_Witness ==
    /\ Len(history) = 4
    /\ history[4].moveNumber = 4
    /\ history[1].moveNumber = 1

(* C17: reset() gives exactly the state of a new engine with the same       *)
(* Config: empty board, empty log, status 'playing', currentPlayer black,   *)
(* winningPositions null, lastMove null, both move counters 0.              *)
C17_ResetIsFresh ==
    /\ reset(this) = constructor(config)
    /\ reset(this).board = [c \in Cells(size) |-> None]
    /\ reset(this).history = << >>
    /\ reset(this).gameStatus = "playing"
    /\ reset(this).currentPlayer = "black"
    /\ reset(this).winningPositions = Null
    /\ reset(this).lastMove = Null
    /\ reset(this).moveCount = [s \in Stone |-> 0]

C17_Witness ==
    /\ gameStatus = "blackWin"
    /\ winningPositions # Null
    /\ moveCount["black"] = 3
    /\ reset(this) = constructor(config)

----------------------------------------------------------------------------
(* The winning line, the turn and the move counters (Spec) *)

\* the steps of the four axes in the order horizontal, vertical, main
\* diagonal, anti-diagonal
AxisOrder == << << 0, 1 >>, << 1, 0 >>, << 1, 1 >>, << 1, -1 >> >>

\* the cells of the run of stone through p on the axis of step d
RunOn(p, d, stone) ==
    { q \in Cells(size) :
        \E k \in -size .. size :
            /\ q = Shift(p, d, k)
            /\ \A j \in 0 .. Abs(k) :
                   LET c == Shift(p, d, IF k < 0 THEN -j ELSE j)
                   IN  c \in Cells(size) /\ board[c] = stone }

\* the axes, by their place in AxisOrder, whose run through p reaches winCount
QualifyingAxes(p, stone) ==
    { i \in 1 .. 4 : Cardinality(RunOn(p, AxisOrder[i], stone)) >= config.winCount }

\* C28: when one placement completes runs of at least winCount on more than
\* one axis, the winning line reported is the run on the earliest qualifying
\* axis in the order horizontal, vertical, main diagonal, anti-diagonal, and
\* holds positions of that one axis only.
C28_LineOfTheEarliestAxis ==
    gameStatus \in WinStatuses =>
        \E i \in QualifyingAxes(lastMove, board[lastMove]) :
            /\ \A j \in QualifyingAxes(lastMove, board[lastMove]) : i <= j
            /\ Range(winningPositions) = RunOn(lastMove, AxisOrder[i], board[lastMove])
            /\ Len(winningPositions) = Cardinality(Range(winningPositions))

\* a win on two axes at once
C28_Witness ==
    /\ gameStatus \in WinStatuses
    /\ Cardinality(QualifyingAxes(lastMove, board[lastMove])) >= 2

\* C29: after a successful placeStone that ends the game with a win the
\* current player is not flipped: the status names the stone of the last log
\* entry and currentPlayer is that stone; after every successful placeStone
\* that does not end the game currentPlayer is the opposite of the stone
\* just placed.
C29_WinnerKeepsTheTurn ==
    /\ gameStatus \in WinStatuses =>
           /\ Len(history) > 0
           /\ gameStatus = WinStatus(history[Len(history)].stone)
           /\ currentPlayer = history[Len(history)].stone
    /\ \A p \in Inputs(size) :
           placeStone(this, p).ret =>
               /\ placeStone(this, p).game.history[Len(history) + 1].stone = currentPlayer
               /\ placeStone(this, p).game.gameStatus \in WinStatuses =>
                      /\ placeStone(this, p).game.gameStatus = WinStatus(currentPlayer)
                      /\ placeStone(this, p).game.currentPlayer = currentPlayer
               /\ placeStone(this, p).game.gameStatus = "playing" =>
                      placeStone(this, p).game.currentPlayer = OtherPlayer(currentPlayer)

\* white to move can end the game at one cell and go on at another
C29_Witness ==
    /\ gameStatus = "playing"
    /\ currentPlayer = "white"
    /\ \E p \in Cells(size) :
           /\ placeStone(this, p).game.gameStatus = "whiteWin"
           /\ placeStone(this, p).game.currentPlayer = "white"
    /\ \E p \in Cells(size) :
           /\ placeStone(this, p).ret
           /\ placeStone(this, p).game.gameStatus = "playing"
           /\ placeStone(this, p).game.currentPlayer = "black"

\* the entries of the log with this stone
EntriesOf(stone) == { i \in 1 .. Len(history) : history[i].stone = stone }

\* C30: after any sequence of placeStone, undo and reset calls, each player's
\* moveCount is the number of log entries with that player's stone, so the
\* two counters sum to the length of the log and are never negative.
C30_MoveCountsMatchLog ==
    /\ \A stone \in Stone : moveCount[stone] = Cardinality(EntriesOf(stone))
    /\ moveCount["black"] + moveCount["white"] = Len(history)
    /\ \A stone \in Stone : moveCount[stone] >= 0

\* a log of three entries left after an undo took the fourth
C30_Witness ==
    /\ Len(history) = 3
    /\ moveCount = [black |-> 2, white |-> 1]
    /\ \E p \in Cells(size) : undo(placeStone(this, p).game).game = this

----------------------------------------------------------------------------
(* The move selector, checked in the game played with it (SpecAI) *)

ProposalFits(g, ret) ==
    IF getEmptyPositions(g) = {}
    THEN ret = Null
    ELSE /\ ret # Null
         /\ ret \in Cells(g.config.boardSize)
         /\ ret \in getEmptyPositions(g)

\* C19: getNextMove returns null if and only if the board has no empty cell;
\* otherwise, at every tier, the position it returns is inside the board and
\* is one of the engine's empty positions.
C19_ProposalIsNullOrEmptyCell ==
    \A aiStone \in Stone, difficulty \in Difficulty :
        \A randomIndex \in RandomIndices(this, difficulty) :
            ProposalFits(this, getNextMove(this, aiStone, difficulty, randomIndex).ret)

\* a board of four cells filled to the last, where every tier answers null
C19_Witness ==
    /\ size = 2
    /\ Len(history) = 4
    /\ getEmptyPositions(this) = {}
    /\ \A difficulty \in Difficulty :
           getNextMove(this, "white", difficulty, 0).ret = Null

\* C20: when the board is entirely empty, getNextMove returns the cell
\* (floor(boardSize / 2), floor(boardSize / 2)) at every tier, for every
\* board size.
C20_EmptyBoardGetsCenter ==
    (\A c \in Cells(size) : board[c] = None)
        => \A aiStone \in Stone, difficulty \in Difficulty :
               \A randomIndex \in RandomIndices(this, difficulty) :
                   getNextMove(this, aiStone, difficulty, randomIndex).ret
                       = << size \div 2, size \div 2 >>

\* an empty board of even size, where the cell proposed is the one below and
\* right of the middle
C20_Witness ==
    /\ size = 2
    /\ \A c \in Cells(size) : board[c] = None
    /\ getNextMove(this, "white", "easy", 3).ret = << 1, 1 >>

----------------------------------------------------------------------------
(* The threat-aware tiers, checked in the game played with them (SpecTiers) *)

\* the empty cells where a stone of this colour would complete a run of winCount
CompletingCells(stone) ==
    { p \in Cells(size) :
        /\ board[p] = None
        /\ HasRunThrough([board EXCEPT ![p] = stone], p, stone, config.winCount) }

\* the first position of a non-empty set in row-major order
RowMajorFirst(S) ==
    CHOOSE p \in S : \A q \in S : p[1] < q[1] \/ (p[1] = q[1] /\ p[2] <= q[2])

OtherStone(stone) == IF stone = "black" THEN "white" ELSE "black"

\* ret is the first of the cells wins when there is one
TakesFirstOf(wins, ret) == wins # {} => ret = RowMajorFirst(wins)

FirstOfSeveral(wins, ret) ==
    Cardinality(wins) >= 2 /\ ret = RowMajorFirst(wins)

BlocksIffNoWin(wins, blocks, ret) ==
    (blocks # {} /\ ret = RowMajorFirst(blocks)) <=> (blocks # {} /\ wins = {})

BlocksIffNoOtherWin(wins, blocks, ret) ==
    /\ (blocks # {} /\ ret = RowMajorFirst(blocks))
       <=> ( /\ blocks # {}
             /\ (wins = {} \/ RowMajorFirst(wins) = RowMajorFirst(blocks)) )
    /\ wins # {} => ret \in wins

FirstBlockTaken(wins, blocks, ret) ==
    wins = {} /\ blocks # {} /\ ret = RowMajorFirst(blocks)

BothTake(wins, blocks, hard, normal) ==
    /\ wins # {}
    /\ blocks # {}
    /\ RowMajorFirst(wins) # RowMajorFirst(blocks)
    /\ hard = RowMajorFirst(wins)
    /\ normal = hard

EngineToMove(stone) ==
    [this EXCEPT !.currentPlayer = stone, !.gameStatus = "playing"]

\* C25: for every board, empty cell p and stone s, the selector's simulated
\* win test (checkWinAt on the copy with s written at p, with the config's
\* winCount) is true if and only if the engine's placeStone(p) with current
\* player s sets the status to the win of s.
C25_SimulatedWinIsEngineWin ==
    \A s \in Stone, p \in Cells(size) :
        board[p] = None =>
            ( checkWinAt([createBoardCopy(board) EXCEPT ![p] = s], p, s, config.winCount)
              <=> placeStone(EngineToMove(s), p).game.gameStatus = WinStatus(s) )

\* a game in play where the selector's test is true at a cell and the engine
\* declares the win when the player to move places there
C25_Witness ==
    /\ gameStatus = "playing"
    /\ Len(history) >= 3
    /\ \E p \in Cells(size) :
           /\ board[p] = None
           /\ checkWinAt([createBoardCopy(board) EXCEPT ![p] = currentPlayer],
                         p, currentPlayer, config.winCount)
           /\ placeStone(this, p).game.gameStatus = WinStatus(currentPlayer)

\* ten times the score the statement of the scored fallback gives the cell p
\* for the mover aiStone: the position value for the mover, less the one for
\* the opponent, less 0.1 for each step of Manhattan distance between p and
\* the centre of the board, the cell (floor(size / 2), floor(size / 2))
StatedScore10(p, aiStone) ==
    10 * evaluatePosition(board, p, aiStone)
      - 10 * evaluatePosition(board, p, OtherStone(aiStone))
      - (Abs(p[1] - size \div 2) + Abs(p[2] - size \div 2))

\* ret is, of the cells scored by scores, the first in row-major order among
\* those of the greatest score
IsFirstBest(scores, ret) ==
    /\ ret \in DOMAIN scores
    /\ \A q \in DOMAIN scores :
           \/ scores[q] < scores[ret]
           \/ /\ scores[q] = scores[ret]
              /\ (ret[1] < q[1] \/ (ret[1] = q[1] /\ ret[2] <= q[2]))

\* C26: when neither an immediate win nor an immediate block exists, the
\* normal tier returns the empty cell that maximizes positionValue(mover) -
\* positionValue(opponent) - 0.1 * (Manhattan distance from the cell to the
\* centre of the board), and among the cells of maximal score the first in
\* row-major order.
C26_FallbackIsFirstBestCell ==
    (Occupied # {} /\ getEmptyPositions(this) # {}) =>
        \A aiStone \in Stone :
            (CompletingCells(aiStone) = {} /\ CompletingCells(OtherStone(aiStone)) = {})
                => IsFirstBest([ p \in getEmptyPositions(this) |-> StatedScore10(p, aiStone) ],
                               getNextMove(this, aiStone, "normal", 0).ret)

----------------------------------------------------------------------------
(* The position value, checked in the games that build lines (SpecLine) *)

\* the contiguous cells holding stone next to p in the direction d
Contiguous(p, d, stone) ==
    CHOOSE k \in 0 .. size :
        /\ \A j \in 1 .. k :
               Shift(p, d, j) \in Cells(size) /\ board[Shift(p, d, j)] = stone
        /\ ~ ( /\ Shift(p, d, k + 1) \in Cells(size)
               /\ board[Shift(p, d, k + 1)] = stone )

\* 1 if the cell just beyond those cells is on the board and empty, else 0
OpenBeyond(p, d, stone) ==
    IF /\ Shift(p, d, Contiguous(p, d, stone) + 1) \in Cells(size)
       /\ board[Shift(p, d, Contiguous(p, d, stone) + 1)] = None
    THEN 1 ELSE 0

\* the table of the position value
TableValue(runLength, openEnds) ==
    CASE runLength >= 5 -> 100000
      [] runLength = 4 /\ openEnds = 2 -> 10000
      [] runLength = 4 /\ openEnds = 1 -> 1000
      [] runLength = 3 /\ openEnds = 2 -> 500
      [] runLength = 3 /\ openEnds = 1 -> 100
      [] runLength = 2 /\ openEnds = 2 -> 50
      [] runLength = 2 /\ openEnds = 1 -> 10
      [] OTHER -> 0

\* the value of the axis of step d through p
AxisValue(p, d, stone) ==
    TableValue(1 + Contiguous(p, d, stone) + Contiguous(p, << -d[1], -d[2] >>, stone),
               OpenBeyond(p, d, stone) + OpenBeyond(p, << -d[1], -d[2] >>, stone))

\* C27: for every board, position and stone, evaluatePosition is the sum over
\* the four axes of the table value for (run length, open ends), the run
\* length being 1 plus the contiguous cells of the stone in both directions
\* and the open ends the empty cells on the board just beyond each end:
\* 5 or more gives 100000; 4 with 2, 1, 0 open gives 10000, 1000, 0; 3 with
\* 2, 1 gives 500, 100; 2 with 2, 1 gives 50, 10; everything else 0.
C27_PositionValueIsTheTable ==
    \A p \in Cells(size), stone \in Stone :
        evaluatePosition(board, p, stone)
            = AxisValue(p, << 0, 1 >>, stone) + AxisValue(p, << 1, 0 >>, stone)
                + AxisValue(p, << 1, 1 >>, stone) + AxisValue(p, << 1, -1 >>, stone)

\* a board of six cells a side with an empty cell that joins three black
\* stones of one line into four with both ends open
C27_Witness ==
    /\ size = 6
    /\ \E p \in Cells(size) :
           /\ board[p] = None
           /\ evaluatePosition(board, p, "black") = 10000

----------------------------------------------------------------------------
(* The selector in the controller's hands (SpecUI) *)

\* C23: whenever getNextMove computes a move, the stone it treats as the mover
\* (the stone whose immediate win it seeks and whose position value it adds)
\* is the engine's current player.  getNextMove is called by a makeAIMove
\* that resumes, which any waiting one can do at once; it computes with the
\* stone of the AI when the board is neither empty nor full.
C23_SelectorMovesForCurrentPlayer ==
    (pendingAI > 0 /\ ai # None /\ Occupied # {} /\ getEmptyPositions(this) # {})
        => currentPlayer = aiStoneUI

----------------------------------------------------------------------------
(* The review of a finished game (SpecReview) *)

\* the fields of the engine the review is to leave alone
ReviewedFields == << board, history, lastMove, gameStatus, currentPlayer >>

\* C31: the review feature (startReview, prevStep, nextStep, replayToStep,
\* exitReview) never changes any engine state: after any sequence of review
\* steps the engine's board, log, lastMove, status and currentPlayer equal
\* their values before the review started.
C31_ReviewLeavesEngineAlone ==
    [][(StartReview \/ PrevStep \/ NextStep \/ ExitReview)
          => UNCHANGED ReviewedFields]_vars

----------------------------------------------------------------------------
(* No winning run goes unnoticed (SpecPlay) *)

\* C32: in every state reachable by placeStone, undo and pause/resume in
\* which the status is 'playing' or 'paused', the board holds no contiguous
\* run of winCount or more cells of one stone on any axis anywhere: a
\* winning run never goes undetected, also after undo and re-placement.
C32_NoRunWhileGameGoesOn ==
    gameStatus \in {"playing", "paused"} =>
        \A p \in Occupied : ~HasRunThrough(board, p, board[p], config.winCount)

\* a paused game in which black is one stone short of a run, at a cell that
\* is neither the first nor the last of that run
C32_Witness ==
    /\ gameStatus = "paused"
    /\ config.winCount = 3
    /\ \E p \in Cells(size), d \in AxisSteps :
           /\ board[p] = None
           /\ Shift(p, d, 1) \in Cells(size) /\ board[Shift(p, d, 1)] = "black"
           /\ Shift(p, d, -1) \in Cells(size) /\ board[Shift(p, d, -1)] = "black"

----------------------------------------------------------------------------
(* The controller and the delayed move of the AI (SpecUI) *)

\* this step added an entry to the log
Placed == Len(history') = Len(history) + 1

\* the stone of the entry this step added
PlacedStone == history'[Len(history')].stone

\* C33: in player-vs-AI mode, under every interleaving of user events (cell
\* click, undo, pause/resume, new game) with the delayed AI-move callback,
\* every stone that makeAIMove places is recorded in the log as white, the
\* AI's stone, and every stone placed by a user click is black.
C33_StonesBelongToTheirMovers ==
    [][/\ (ai # None /\ MakeAIMove /\ Placed) => PlacedStone = aiStoneUI
       /\ (ai # None /\ HandleCellClick /\ Placed) => PlacedStone = "black"]_vars

\* C34: in player-vs-AI mode, whenever the status is 'playing' and it is
\* white's turn, the AI eventually places a stone (the delayed callback being
\* assumed to fire), even if the user pauses and resumes, or undoes, while
\* the AI move is pending: the game never reaches a state where it is white's
\* turn, the status is 'playing', no AI move is pending and user clicks are
\* ignored.
C34_WhiteToMoveHasAPendingMove ==
    (ai # None /\ gameStatus = "playing" /\ currentPlayer = "white")
        => pendingAI > 0

\* the calls of makeAIMove that wait, if any, will meet an AI and leave the
\* engine as it is
WaitingCallsDoNothing ==
    pendingAI > 0 => (ai # None /\ makeAIMoveOf(0) = this)

\* C35: an AI move scheduled by makeAIMove in one game never takes effect on
\* a later game: if resetGame or switchGameMode runs while the AI move is
\* pending, the pending callback places no stone on the new engine and never
\* dereferences a null AI.
C35_NoMoveFromAnEarlierGame ==
    [][(ResetGame \/ SwitchGameMode) => WaitingCallsDoNothing']_vars

\* undoMove took the two last entries of the log, or the only one, and left
\* black to move in a game that goes on
TookBackTheRound(after) ==
    /\ Len(after.history) = IF Len(history) >= 2 THEN Len(history) - 2 ELSE 0
    /\ after.history = SubSeq(history, 1, Len(after.history))
    /\ after.currentPlayer = "black"
    /\ after.gameStatus = "playing"

\* C36: in player-vs-AI mode with no AI move pending, a successful undoMove
\* removes the AI's last stone and the human's last stone (two log entries
\* when at least two exist) and leaves it black's (the human's) turn with
\* status 'playing'.
C36_UndoMoveTakesBackTheRound ==
    (ai # None /\ pendingAI = 0 /\ undo(this).ret)
        => TookBackTheRound(undoMoveOf(undo(this)))

----------------------------------------------------------------------------
(* The value of a winning cell (SpecLine) *)

\* the empty cells at which stone completes a run of five, or does not
FiveCells(stone, completes) ==
    { p \in Cells(size) :
        board[p] = None /\ checkWinAt(board, p, stone, 5) = completes }

\* the values evaluatePosition gives stone at the cells of S
ValuesAt(S, stone) == { evaluatePosition(board, p, stone) : p \in S }

\* every value of the first set is at least 100000 and above every value of
\* the second, which are all below 100000
FiveOutscores(winning, others) ==
    /\ \A v \in winning : v >= 100000
    /\ \A v \in others : v < 100000
    /\ \A v \in winning : \A u \in others : v > u

\* C37: for winCount = 5, for every board, empty cell p and stone s, placing
\* s at p completes a winning run (checkWinAt is true) if and only if
\* evaluatePosition(board, p, s) is at least 100000, so a winning cell always
\* outscores every non-winning cell's own-stone value.
C37_WinningCellIffHundredThousand ==
    config.winCount = 5 =>
        \A stone \in Stone :
            FiveOutscores(ValuesAt(FiveCells(stone, TRUE), stone),
                          ValuesAt(FiveCells(stone, FALSE), stone))

\* black can complete five at one cell and make a four at another
C37_Witness ==
    /\ config.winCount = 5
    /\ FiveCells("black", TRUE) # {}
    /\ \E v \in ValuesAt(FiveCells("black", FALSE), "black") : v >= 1000

\* C38: saveSettings applies the chosen configuration and restarts the game:
\* after saveSettings with selected boardSize b, winCount w and AI difficulty
\* d, the new engine's config has boardSize = b and winCount = w, and the AI
\* (in player-vs-AI mode) uses difficulty d.
C38_SaveSettingsAppliesTheForm ==
    [][\A form \in SettingsForm :
          SaveSettingsOf(form) =>
              /\ config' = [boardSize |-> form[1][1], winCount |-> form[1][2]]
              /\ ai' # None => ai' = form[2]]_vars

====
